---------------------------- MODULE Spec2Model ----------------------------
(***************************************************************************)
(* A model of alfatraining/ort-artifacts:                                  *)
(*   fetch_artifacts.py                 retry wrapper, run selection,      *)
(*                                      download / unpack / flatten        *)
(*   .github/scripts/generate_manifest.py   manifest generation            *)
(*                                                                         *)
(* The specifications share the variables; each one drives one part of    *)
(* the program and leaves the other parts idle:                            *)
(*   SpecRetry     retry_on_permission_error around an arbitrary operation *)
(*   SpecSelect    get_last_successful_run over a provider's run list      *)
(*   SpecUnpack    download_and_unpack_artifact on a modelled filesystem   *)
(*   SpecUnzip     the same, on zip archives with Unix attributes          *)
(*   SpecDriver    fetch_artifacts.main from the parsed arguments on       *)
(*   SpecManifest  generate_manifest.main over a list of archives          *)
(***************************************************************************)
EXTENDS Integers, Sequences, FiniteSets, TLC

VARIABLES
    \* ---- retry_on_permission_error.wrapper
    max_attempts,   \* the decorator's max_attempts
    rPc,            \* "idle" | "call" | "sleep" | "returned" | "raised"
    attempt,        \* the loop variable of `for attempt in range(max_attempts)`
    delay,          \* the local `delay`, in tenths of a time unit
    history,        \* outcome of every call of the wrapped func so far
    sleepLog,       \* argument of every time.sleep so far
    rExc,           \* exception class the wrapper propagated, or "none"
    \* ---- get_last_successful_run
    pattern,        \* artifact_name_pattern
    totalRuns,      \* length of the provider's run list (all_runs)
    sPc,            \* "idle" | "iterate" | "done"
    runIdx,         \* runs taken from all_runs so far
    passLog,        \* for each run taken: does it pass the acceptance test
    selResult,      \* the run returned, NoRun for None
    \* ---- download_and_unpack_artifact / unpack_and_delete_archive
    remote,         \* content of the artifact's zip at the provider
    fs,             \* the filesystem: path -> [kind, data, src]
    uPc,            \* position in download_and_unpack_artifact
    file_path,      \* unpack_and_delete_archive's file_path
    dest_dir,       \* unpack_and_delete_archive's dest_dir
    opened,         \* content of the archive as opened for reading
    memIdx,         \* index of the next member to extract
    clobbered,      \* the archive file was overwritten by one of its members
    pending,        \* children of the single subdirectory not yet moved
    subentry,       \* the child move_entry is renaming
    uExc,           \* exception that left download_and_unpack_artifact
    \* ---- history of the run, for the claims
    preFs,          \* the filesystem before the run
    innerSnap,      \* [path, data] of the nested archive when step 3 fired
    flatSnap,       \* the filesystem when step 4 fired
    unlinkLog,      \* every unlink: [path, left] (members not yet extracted)
    extLog,         \* for each member of `opened` extracted: what was done
    \* ---- generate_manifest.main
    artifactsDir,   \* does artifacts/ exist
    found,          \* find_archives: indices into ArchivePaths
    mPc,            \* "idle" | "start" | "loop" | "returned" | "written" | "crashed"
    mDone,          \* archives of sorted(archives) processed so far
    manifest,       \* the dict main fills: key -> metadata
    manifestFile,   \* content of manifest.json, NoFile if not written
    mLog,           \* per archive processed: [idx, kind, reported, entry]
    \* ---- fetch_artifacts.main
    args_run,       \* args.run: "given" for a run id, "none" without --run
    dPc,            \* "idle" | "start" | "select" | "list" | "loop" |
                    \* "exited" | "finished" | "raised"
    target_run,     \* target_run, NoRun for None
    listing,        \* target_run.get_artifacts() in the order it yields them
    dlLog           \* artifact of every download_and_unpack_artifact call

retryVars == <<max_attempts, rPc, attempt, delay, history, sleepLog, rExc>>

selVars == <<pattern, totalRuns, sPc, runIdx, passLog, selResult>>

unpVars ==
    <<remote, fs, uPc, file_path, dest_dir, opened, memIdx, clobbered, pending,
      subentry, uExc, preFs, innerSnap, flatSnap, unlinkLog, extLog>>

manVars == <<artifactsDir, found, mPc, mDone, manifest, manifestFile, mLog>>

drvVars == <<args_run, dPc, target_run, listing, dlLog>>

vars == <<retryVars, selVars, unpVars, manVars, drvVars>>

(***************************************************************************)
(* Exceptions.  PermissionError, FileExistsError, ... are subclasses of    *)
(* OSError; ValueError and AssertionError are not.                         *)
(***************************************************************************)
OSErrorClasses ==
    {"OSError", "PermissionError", "FileExistsError", "IsADirectoryError",
     "NotADirectoryError", "FileNotFoundError"}

OtherClasses == {"ValueError", "AssertionError", "ArchiveError"}

\* isinstance(exc, cls) for the two classes the wrapper names
IsInstance(exc, cls) ==
    CASE cls = "OSError"         -> exc \in OSErrorClasses
      [] cls = "PermissionError" -> exc = "PermissionError"
      [] OTHER                   -> exc = cls

\* variant: a bare `except Exception:`
CaughtAnyMutant(exc) == TRUE

\* except (PermissionError, OSError):

Caught(exc) == IsInstance(exc, "PermissionError") \/ IsInstance(exc, "OSError")

DefaultMaxAttempts == 5

InitialDelay == 1

\* variant: `if attempt >= max_attempts - 2`, giving up one attempt early
LastAttemptMutant == attempt >= max_attempts - 2

LastAttempt == attempt = max_attempts - 1

\* wrapper is entered: delay = initial_delay, the loop starts at attempt 0
WrapperEnter ==
    /\ rPc' = "call"
    /\ attempt' = 0
    /\ delay' = InitialDelay
    /\ history' = <<>>
    /\ sleepLog' = <<>>
    /\ rExc' = "none"
    /\ UNCHANGED max_attempts

\* one `return func(...)` inside the try, func's outcome being o
WrapperCall(o) ==
    /\ rPc = "call"
    /\ history' = Append(history, o)
    /\ IF o = "ok"
         THEN rPc' = "returned" /\ rExc' = "none"
         ELSE IF Caught(o) /\ ~LastAttempt
                THEN rPc' = "sleep" /\ rExc' = "none"
                ELSE rPc' = "raised" /\ rExc' = o
    /\ UNCHANGED <<max_attempts, attempt, delay, sleepLog>>

\* variant: `delay += initial_delay`, a linear backoff
WrapperSleepMutant ==
    /\ rPc = "sleep"
    /\ sleepLog' = Append(sleepLog, delay)
    /\ delay' = delay + InitialDelay
    /\ attempt' = attempt + 1
    /\ rPc' = "call"
    /\ UNCHANGED <<max_attempts, history, rExc>>

\* time.sleep(delay); delay *= 2; next iteration of the for loop
WrapperSleep ==
    /\ rPc = "sleep"
    /\ sleepLog' = Append(sleepLog, delay)
    /\ delay' = delay * 2
    /\ attempt' = attempt + 1
    /\ rPc' = "call"
    /\ UNCHANGED <<max_attempts, history, rExc>>

RetryIdle ==
    /\ max_attempts = DefaultMaxAttempts
    /\ rPc = "idle"
    /\ attempt = 0
    /\ delay = InitialDelay
    /\ history = <<>>
    /\ sleepLog = <<>>
    /\ rExc = "none"

(***************************************************************************)
(* get_last_successful_run.  Names and patterns are sequences of           *)
(* characters.                                                             *)
(***************************************************************************)
MaxJobs == 2

MaxRuns == 3

Names == {<<"a">>, <<"b">>, <<"a", "b">>, <<"b", "b">>}

Patterns == {<<"*">>, <<"a", "*">>, <<"?", "b">>, <<"b">>}

JobLists == UNION {[1..n -> Names] : n \in 0..MaxJobs}

\* a WorkflowRun as fetched: conclusion, run.jobs(), run.get_artifacts()
Runs ==
    [conclusion : {"success", "failure"}, jobs : JobLists, artifacts : SUBSET Names]

NoRun == [conclusion |-> "none", jobs |-> <<>>, artifacts |-> {}]

\* fnmatch.fnmatch(name, pat) for patterns made of literals, * and ?
RECURSIVE fnmatch(_, _)
fnmatch(name, pat) ==
    IF pat = <<>> THEN name = <<>>
    ELSE IF Head(pat) = "*"
           THEN fnmatch(name, Tail(pat)) \/ (name # <<>> /\ fnmatch(Tail(name), pat))
           ELSE /\ name # <<>>
                /\ (Head(pat) = "?" \/ Head(pat) = Head(name))
                /\ fnmatch(Tail(name), Tail(pat))

\* the str operator `a in b`
IsSubstring(a, b) ==
    \E i \in 0..(Len(b) - Len(a)) : SubSeq(b, i + 1, i + Len(a)) = a

\* [job for job in run.jobs() if fnmatch(job.name, artifact_name_pattern)]
matching_jobs(run) == SelectSeq(run.jobs, LAMBDA j : fnmatch(j, pattern))

\* the artifacts that match the pattern and any(artifact.name in job.name ...)
matching_artifacts(run) ==
    {a \in run.artifacts :
        /\ fnmatch(a, pattern)
        /\ \E k \in 1..Len(matching_jobs(run)) : IsSubstring(a, matching_jobs(run)[k])}

\* variant: run_matches without the conclusion test
run_matches_mutant(run) ==
    IF Len(matching_jobs(run)) < 1 THEN FALSE
    ELSE Len(matching_jobs(run)) = Cardinality(matching_artifacts(run))

run_matches(run) ==
    IF run.conclusion # "success" THEN FALSE
    ELSE IF Len(matching_jobs(run)) < 1 THEN FALSE
    ELSE Len(matching_jobs(run)) = Cardinality(matching_artifacts(run))

(* The acceptance test as the specification words it, used only to record  *)
(* the verdict on each run the loop takes.                                 *)
AcceptanceTest(run) ==
    LET mj == {k \in 1..Len(run.jobs) : fnmatch(run.jobs[k], pattern)}
        ma == {a \in run.artifacts :
                  fnmatch(a, pattern) /\ \E k \in mj : IsSubstring(a, run.jobs[k])}
    IN  /\ run.conclusion = "success"
        /\ mj # {}
        /\ Cardinality(mj) = Cardinality(ma)

\* variant: the for loop ends after the first run, whatever follows
LoopExhaustedMutant == runIdx = totalRuns \/ runIdx >= 1

\* `for i, run in enumerate(all_runs)` has no next run
LoopExhausted == runIdx = totalRuns

\* one iteration of the loop: take the next run, return it if run_matches
SelIterate ==
    /\ sPc = "iterate"
    /\ ~LoopExhausted
    /\ \E run \in Runs :
         /\ passLog' = Append(passLog, AcceptanceTest(run))
         /\ runIdx' = runIdx + 1
         /\ IF run_matches(run)
              THEN sPc' = "done" /\ selResult' = run
              ELSE sPc' = "iterate" /\ selResult' = selResult
    /\ UNCHANGED <<pattern, totalRuns>>

\* the loop is over: return None
SelReturnNone ==
    /\ sPc = "iterate"
    /\ LoopExhausted
    /\ sPc' = "done"
    /\ selResult' = NoRun
    /\ UNCHANGED <<pattern, totalRuns, runIdx, passLog>>

SelInit ==
    /\ pattern \in Patterns
    /\ totalRuns \in 0..MaxRuns
    /\ sPc = "iterate"
    /\ runIdx = 0
    /\ passLog = <<>>
    /\ selResult = NoRun

SelIdle ==
    /\ pattern = <<"*">>
    /\ totalRuns = 0
    /\ sPc = "idle"
    /\ runIdx = 0
    /\ passLog = <<>>
    /\ selResult = NoRun

(***************************************************************************)
(* The filesystem.  A path is a sequence of names; fs maps every existing  *)
(* path to a node [kind, data, src]: kind is "dir" or "file", data is the  *)
(* content of a file, src tells which step created the node ("pre": there  *)
(* before the run, "dl": the download, "outer" / "inner": extracted from   *)
(* the downloaded / the nested archive).  The content of a file is         *)
(* [fmt, members]: fmt "tar" or "zip" for an archive with its member list, *)
(* "text" with the text for the target of a symbolic link, "plain" for     *)
(* anything else.  A node of kind "symlink" holds the text of its target,  *)
(* the name of an entry of the link's own directory.  mode is the          *)
(* permission bits of the node, DefaultMode while nothing has set them.    *)
(***************************************************************************)
MaxMembers == 2

Plain == [fmt |-> "plain", members |-> <<>>]

\* the content "t": what zf.read(...).decode() gives for a link to t
LinkText(t) == [fmt |-> "text", members |-> <<t>>]

\* the mode a node has when it is created and no chmod follows
DefaultMode == -1

\* what is left of a file whose extraction was cut short
Truncated == [fmt |-> "truncated", members |-> <<>>]

Node(kind, data, src) ==
    [kind |-> kind, data |-> data, src |-> src, mode |-> DefaultMode]

NoFs == <<>> :> Node("dir", Plain, "pre")

IsPrefix(p, q) == Len(p) <= Len(q) /\ SubSeq(q, 1, Len(p)) = p

\* Path.parent
Parent(p) == SubSeq(p, 1, Len(p) - 1)

\* os.path.lexists: the path names a node, a symbolic link included
lexists(f, p) == p \in DOMAIN f

\* the path the system reaches when it opens p: the target of a link
Follow(f, p) ==
    IF lexists(f, p) /\ f[p].kind = "symlink"
      THEN Append(Parent(p), f[p].data.members[1])
      ELSE p

\* Path.exists / is_dir / is_file, which follow symbolic links
exists(f, p) == Follow(f, p) \in DOMAIN f

is_dir(f, p) == exists(f, p) /\ f[Follow(f, p)].kind = "dir"

is_file(f, p) == exists(f, p) /\ f[Follow(f, p)].kind = "file"

\* stat.S_ISLNK(attr) and the permission bits of attr (attr & 0o7777)
S_ISLNK(attr) == attr \div 4096 = 10

S_IMODE(attr) == attr % 4096

\* the owner may write: a file can be opened for writing, a directory
\* can get new entries
Writable(mode) == mode = DefaultMode \/ (mode \div 128) % 2 = 1

\* Path.iterdir
iterdir(f, p) == {q \in DOMAIN f : Len(q) = Len(p) + 1 /\ IsPrefix(p, q)}

\* the tree below p, keyed by the path relative to p
Subtree(f, p) ==
    [r \in {SubSeq(q, Len(p) + 1, Len(q)) : q \in {x \in DOMAIN f : IsPrefix(p, x) /\ x # p}}
        |-> [kind |-> f[p \o r].kind, data |-> f[p \o r].data]]

\* the prefixes of p, p excluded, that do not exist yet (root always exists)
MissingAncestors(f, p) ==
    {SubSeq(p, 1, n) : n \in 1..(Len(p) - 1)} \ DOMAIN f

\* some ancestor of p exists and is not a directory
BlockedAncestor(f, p) ==
    \E n \in 1..(Len(p) - 1) :
        lexists(f, SubSeq(p, 1, n)) /\ ~is_dir(f, SubSeq(p, 1, n))

WithDirs(f, ps, src) == [q \in ps |-> Node("dir", Plain, src)] @@ f

\* Path.mkdir(parents, exist_ok): [fs, exc]
mkdir(f, p, parents, exist_ok, src) ==
    IF lexists(f, p)
      THEN IF exist_ok /\ is_dir(f, p)
             THEN [fs |-> f, exc |-> "none"]
             ELSE [fs |-> f, exc |-> "FileExistsError"]
    ELSE IF BlockedAncestor(f, p)
      THEN [fs |-> f, exc |-> "NotADirectoryError"]
    ELSE IF MissingAncestors(f, p) # {} /\ ~parents
      THEN [fs |-> f, exc |-> "FileNotFoundError"]
    ELSE [fs |-> WithDirs(f, MissingAncestors(f, p) \cup {p}, src), exc |-> "none"]

\* tarfile.is_tarfile / zipfile.is_zipfile on a file's content
is_tarfile(data) == data.fmt = "tar"

is_zipfile(data) == data.fmt = "zip"

(* is_tar_or_zip_file(path): tarfile.is_tarfile opens the path, which      *)
(* raises IsADirectoryError (POSIX) or PermissionError (Windows) for a     *)
(* directory; both are OSErrors and neither is caught.                     *)
is_tar_or_zip_file(f, p) ==
    IF is_dir(f, p) THEN "IsADirectoryError"
    ELSE IF ~exists(f, p) THEN "FileNotFoundError"
    ELSE IF is_tarfile(f[Follow(f, p)].data) \/ is_zipfile(f[Follow(f, p)].data)
      THEN "yes"
    ELSE "no"

(* open(p, "w") and a write of data: the set of possible results           *)
(* [fs, exc, clob].  The write goes through a symbolic link at p.  A write *)
(* over the archive that is being read (arc) truncates what is read: the   *)
(* library then either still holds the data in its buffers and goes on, or *)
(* fails with EOFError / ReadError.  Where the permission bits deny the    *)
(* write it still succeeds for a privileged user.                          *)
write_outcomes(f, arc, p, data, clob, src) ==
    LET q == Follow(f, p)
        node == IF lexists(f, q) THEN [f[q] EXCEPT !.data = data]
                                 ELSE Node("file", data, src)
        cut == IF lexists(f, q) THEN [f[q] EXCEPT !.data = Truncated]
                                ELSE Node("file", Truncated, src)
        denied == IF lexists(f, q) THEN ~Writable(f[q].mode)
                                   ELSE ~Writable(f[Parent(q)].mode)
    IN  IF lexists(f, q) /\ f[q].kind = "dir"
          THEN {[fs |-> f, exc |-> "IsADirectoryError", clob |-> clob]}
        ELSE {[fs |-> (q :> node) @@ f, exc |-> "none", clob |-> clob \/ q = arc]}
             \cup (IF clob \/ q = arc
                     THEN {[fs |-> (q :> cut) @@ f, exc |-> "ArchiveError", clob |-> clob]}
                     ELSE {})
             \cup (IF denied
                     THEN {[fs |-> f, exc |-> "PermissionError", clob |-> clob]}
                     ELSE {})

\* os.chmod(p, attr), which follows a symbolic link at p
chmod(f, p, attr) ==
    [f EXCEPT ![Follow(f, p)].mode = S_IMODE(attr)]

\* variant: a failed os.chmod is not caught
ChmodOutcomesMutant(r, p, attr) ==
    IF r.exc # "none" \/ attr = 0
      THEN {[r EXCEPT !.note = "none"]}
      ELSE {[r EXCEPT !.fs = chmod(r.fs, p, attr), !.note = "chmod_ok"],
            [r EXCEPT !.exc = "OSError", !.note = "chmod_failed"]}

(* lines 146-151 after zf.extract returned r: `if attr != 0:` os.chmod,    *)
(* whose OSError is passed over.  note tells what happened.                *)
ChmodOutcomes(r, p, attr) ==
    IF r.exc # "none" \/ attr = 0
      THEN {[r EXCEPT !.note = "none"]}
      ELSE {[r EXCEPT !.fs = chmod(r.fs, p, attr), !.note = "chmod_ok"],
            [r EXCEPT !.note = "chmod_failed"]}

(* zf.extract / TarFile.extract of the member m to target, the missing     *)
(* directories above it created first: [fs, exc, clob, note]               *)
MemberOutcomes(f, arc, target, m, fmt, clob, src) ==
    LET f1 == WithDirs(f, MissingAncestors(f, target), src)
        res(g, e) == [fs |-> g, exc |-> e, clob |-> clob, note |-> "none"]
    IN  IF BlockedAncestor(f, target)
          THEN {res(f, IF \E n \in 1..(Len(target) - 1) :
                             is_file(f, SubSeq(target, 1, n))
                         THEN "NotADirectoryError" ELSE "FileExistsError")}
        ELSE IF m.kind = "dir"
          THEN IF lexists(f1, target) /\ ~is_dir(f1, target)
                 \* zipfile: os.mkdir raises; tarfile.makedir may pass over it
                 THEN {res(f1, "FileExistsError")}
                      \cup (IF fmt = "tar" THEN {res(f1, "none")} ELSE {})
               ELSE IF is_dir(f1, target) THEN {res(f1, "none")}
               ELSE IF ~Writable(f1[Parent(target)].mode)
                 THEN {res(WithDirs(f1, {target}, src), "none"),
                       res(f1, "PermissionError")}
               ELSE {res(WithDirs(f1, {target}, src), "none")}
        ELSE {[fs |-> r.fs, exc |-> r.exc, clob |-> r.clob, note |-> "none"] :
                r \in write_outcomes(f1, arc, target, m.data, clob, src)}

(* lines 124-140, a zip entry whose attributes mark a symbolic link: the   *)
(* parent directory is made, os.symlink creates the link, and on any       *)
(* OSError (the platform refuses, or the path is taken) the target text is *)
(* written to the path as a regular file instead.                          *)
SymlinkOutcomes(f, arc, target, m, clob, src) ==
    LET made == mkdir(f, Parent(target), TRUE, TRUE, src)
        g == made.fs
        link == Node("symlink", m.data, src)
        fallback(note) ==
            {[fs |-> r.fs, exc |-> r.exc, clob |-> r.clob,
              note |-> IF r.exc = "none" THEN note ELSE "none"] :
                r \in write_outcomes(g, arc, target, m.data, clob, src)}
    IN  IF made.exc # "none"
          THEN {[fs |-> f, exc |-> made.exc, clob |-> clob, note |-> "none"]}
        ELSE IF lexists(g, target)
          THEN fallback("fallback_exists")
        ELSE {[fs |-> (target :> link) @@ g, exc |-> "none", clob |-> clob,
               note |-> "symlink"]}
             \cup fallback("fallback_rejected")

(* Extraction of one member m of the archive at arc into dest: the set of  *)
(* possible results [fs, exc, clob, note].  unzip() looks at the entry's   *)
(* attributes; untar() leaves everything to TarFile.extractall, which      *)
(* applies the stored mode itself.                                         *)
ExtractOutcomes(f, arc, dest, m, fmt, clob, src) ==
    LET target == dest \o m.path
    IN  IF fmt = "zip" /\ S_ISLNK(m.attr)
          THEN SymlinkOutcomes(f, arc, target, m, clob, src)
          ELSE UNION {ChmodOutcomes(r, target, m.attr) :
                        r \in MemberOutcomes(f, arc, target, m, fmt, clob, src)}

\* Path.unlink(missing_ok=False): [fs, exc]
unlink(f, p) ==
    IF ~lexists(f, p) THEN [fs |-> f, exc |-> "FileNotFoundError"]
    ELSE IF f[p].kind = "dir" THEN [fs |-> f, exc |-> "IsADirectoryError"]
    ELSE [fs |-> [q \in DOMAIN f \ {p} |-> f[q]], exc |-> "none"]

\* the tree at s re-rooted at d
MoveTree(f, s, d) ==
    LET moved == {q \in DOMAIN f : IsPrefix(s, q)}
        image(q) == d \o SubSeq(q, Len(s) + 1, Len(q))
        kept == DOMAIN f \ moved
    IN  [q \in kept \cup {image(x) : x \in moved} |->
            IF \E x \in moved : image(x) = q
              THEN f[s \o SubSeq(q, Len(d) + 1, Len(q))]
              ELSE f[q]]

(* Path.rename(target): the exception classes it can raise, "ok" if none.  *)
(* An existing target directory that is not empty, or that a file is       *)
(* renamed onto, is an error on every platform; an existing file or empty  *)
(* directory is replaced on POSIX and a FileExistsError on Windows.        *)
rename_outcomes(f, s, d) ==
    IF ~lexists(f, d) THEN {"ok"}
    ELSE IF f[d].kind = "dir" /\ f[s].kind # "dir" THEN {"IsADirectoryError"}
    ELSE IF f[d].kind = "dir" /\ iterdir(f, d) # {} THEN {"OSError"}
    ELSE IF f[d].kind # "dir" /\ f[s].kind = "dir" THEN {"NotADirectoryError"}
    ELSE {"ok", "FileExistsError"}

\* variant: the entry is taken from its place and never arrives
renameMutant(f, s, d) == [q \in {x \in DOMAIN f : ~IsPrefix(s, x)} |-> f[q]]

\* Path.rename(d) of s when it succeeds: d, if there, is replaced
rename(f, s, d) == MoveTree([q \in {x \in DOMAIN f : ~IsPrefix(d, x)} |-> f[q]], s, d)

\* Path.rmdir: the exception class it raises, "ok" if none
rmdir_outcome(f, p) == IF iterdir(f, p) # {} THEN "OSError" ELSE "ok"

rmdir(f, p) == [q \in DOMAIN f \ {p} |-> f[q]]

(***************************************************************************)
(* download_and_unpack_artifact                                            *)
(***************************************************************************)
\* f"{artifact.name}.zip" for the artifact named "art"
file_name == "art.zip"

\* Path.stem: the name without its last suffix
stem(name) == IF name = "art.zip" THEN "art" ELSE name

\* the fresh directory TemporaryDirectory(delete=False) makes
TmpDir == <<"tmp">>

dest_parent_dir == <<"dest">>

\* dl_file_path and dl_dir_path
dl_file_path == Append(TmpDir, file_name)

dl_dir_path == Append(dest_parent_dir, stem(file_name))

NoPath == <<>>

NoSnap == [path |-> NoPath, data |-> Plain]

Raise(e) == uPc' = "raised" /\ uExc' = e

UnpGhostUnchanged == UNCHANGED <<preFs, innerSnap, flatSnap>>

\* _download_artifact(run, artifact): a new temporary directory, the file
\* touched with exist_ok=False and filled with the response body
Download ==
    /\ uPc = "download"
    /\ LET made == mkdir(fs, TmpDir, TRUE, TRUE, "dl")
       IN  IF made.exc # "none" THEN Raise(made.exc) /\ UNCHANGED <<fs, file_path, dest_dir>>
           ELSE IF exists(made.fs, dl_file_path)
             THEN Raise("FileExistsError") /\ UNCHANGED <<fs, file_path, dest_dir>>
           ELSE /\ fs' = (dl_file_path :> Node("file", remote, "dl")) @@ made.fs
                /\ file_path' = dl_file_path
                /\ dest_dir' = dl_dir_path
                /\ uPc' = "outer_begin"
                /\ uExc' = uExc
    /\ UNCHANGED <<remote, opened, memIdx, clobbered, pending, subentry, unlinkLog,
                   extLog>>
    /\ UnpGhostUnchanged

Stage == IF uPc \in {"outer_begin", "outer_extract"} THEN "outer" ELSE "inner"

\* variant: whatever is not a tar archive is opened as a zip archive
IsArchiveMutant(data) == TRUE

\* lines 153-158: tarfile.is_tarfile(file_path), else zipfile.is_zipfile
IsArchive(data) == is_tarfile(data) \/ is_zipfile(data)

(* unpack_and_delete_archive, lines 103-158: the assertion, the creation   *)
(* of dest_dir (always passed by download_and_unpack_artifact, so          *)
(* parents=True, exist_ok=True) and the detection of the format.           *)
UnpackBegin ==
    /\ uPc \in {"outer_begin", "inner_begin"}
    /\ IF ~(exists(fs, file_path) /\ is_file(fs, file_path))
         THEN Raise("AssertionError") /\ UNCHANGED <<fs, opened, memIdx, clobbered, extLog>>
         ELSE LET made == mkdir(fs, dest_dir, TRUE, TRUE, Stage)
              IN  IF made.exc # "none"
                    THEN Raise(made.exc) /\ UNCHANGED <<fs, opened, memIdx, clobbered, extLog>>
                  ELSE IF ~IsArchive(fs[file_path].data)
                    THEN /\ Raise("AssertionError")
                         /\ fs' = made.fs
                         /\ UNCHANGED <<opened, memIdx, clobbered, extLog>>
                  ELSE /\ fs' = made.fs
                       /\ opened' = fs[file_path].data
                       /\ memIdx' = 1
                       /\ clobbered' = FALSE
                       /\ extLog' = <<>>
                       /\ uPc' = IF uPc = "outer_begin" THEN "outer_extract" ELSE "inner_extract"
                       /\ uExc' = uExc
    /\ UNCHANGED <<remote, file_path, dest_dir, pending, subentry, unlinkLog>>
    /\ UnpGhostUnchanged

\* variant: over as soon as the first member has been extracted
ExtractionOverMutant == memIdx > 1 \/ memIdx > Len(opened.members)

\* untar() / unzip() have gone through every member
ExtractionOver == memIdx > Len(opened.members)

\* untar() / unzip(): the next member
ExtractMember ==
    /\ uPc \in {"outer_extract", "inner_extract"}
    /\ ~ExtractionOver
    /\ \E r \in ExtractOutcomes(fs, file_path, dest_dir, opened.members[memIdx],
                                opened.fmt, clobbered, Stage) :
         /\ fs' = r.fs
         /\ clobbered' = r.clob
         /\ extLog' = Append(extLog, r.note)
         /\ IF r.exc = "none"
              THEN memIdx' = memIdx + 1 /\ UNCHANGED <<uPc, uExc>>
              ELSE memIdx' = memIdx /\ Raise(r.exc)
    /\ UNCHANGED <<remote, file_path, dest_dir, opened, pending, subentry, unlinkLog>>
    /\ UnpGhostUnchanged

\* variant: the nested-archive step is applied again to what it left
AfterUnpackMutant(pc) == "nested_check"

\* where unpack_and_delete_archive returns to: line 175 goes on with the
\* nested-archive step, line 181 with the single-directory step
AfterUnpack(pc) == IF pc = "outer_extract" THEN "nested_check" ELSE "dir_check"

\* file_path.unlink(missing_ok=False); return dest_dir
UnlinkArchive ==
    /\ uPc \in {"outer_extract", "inner_extract"}
    /\ ExtractionOver
    /\ LET r == unlink(fs, file_path)
       IN  /\ fs' = r.fs
           /\ IF r.exc = "none"
                THEN /\ unlinkLog' = Append(unlinkLog,
                            [path |-> file_path, left |-> Len(opened.members) + 1 - memIdx])
                     /\ uPc' = AfterUnpack(uPc)
                     /\ uExc' = uExc
                ELSE unlinkLog' = unlinkLog /\ Raise(r.exc)
    /\ UNCHANGED <<remote, file_path, dest_dir, opened, memIdx, clobbered, pending, subentry,
                   extLog>>
    /\ UnpGhostUnchanged

\* lines 179-181: a single entry that is a tar or zip file is unpacked in place
NestedCheck ==
    /\ uPc = "nested_check"
    /\ LET entries == iterdir(fs, dl_dir_path)
           only == CHOOSE e \in entries : TRUE
       IN  IF Cardinality(entries) # 1
             THEN uPc' = "dir_check" /\ UNCHANGED <<file_path, dest_dir, uExc, innerSnap>>
           ELSE IF is_tar_or_zip_file(fs, only) = "yes"
             THEN /\ uPc' = "inner_begin"
                  /\ file_path' = only
                  /\ dest_dir' = dl_dir_path
                  /\ innerSnap' = [path |-> only, data |-> fs[only].data]
                  /\ uExc' = uExc
           ELSE IF is_tar_or_zip_file(fs, only) = "no"
             THEN uPc' = "dir_check" /\ UNCHANGED <<file_path, dest_dir, uExc, innerSnap>>
           ELSE /\ Raise(is_tar_or_zip_file(fs, only))
                /\ UNCHANGED <<file_path, dest_dir, innerSnap>>
    /\ UNCHANGED <<remote, fs, opened, memIdx, clobbered, pending, subentry, unlinkLog,
                   preFs, flatSnap, extLog>>

\* lines 185-187: a single entry that is a directory; list(entries[0].iterdir())
DirCheck ==
    /\ uPc = "dir_check"
    /\ LET entries == iterdir(fs, dl_dir_path)
           only == CHOOSE e \in entries : TRUE
       IN  IF Cardinality(entries) = 1 /\ is_dir(fs, only)
             THEN /\ uPc' = "move"
                  /\ pending' = iterdir(fs, only)
                  /\ flatSnap' = fs
             ELSE /\ uPc' = "done"
                  /\ UNCHANGED <<pending, flatSnap>>
    /\ UNCHANGED <<remote, fs, file_path, dest_dir, opened, memIdx, clobbered, subentry,
                   uExc, unlinkLog, preFs, innerSnap, extLog>>

\* entries[0] of the second listing: the single subdirectory
Wrapping == CHOOSE e \in iterdir(flatSnap, dl_dir_path) : TRUE

UnpFrame ==
    <<remote, file_path, dest_dir, opened, memIdx, clobbered, unlinkLog, extLog>>

\* the for loop takes the next subentry and calls the decorated move_entry
MoveEnter ==
    /\ uPc = "move" /\ rPc = "idle" /\ pending # {}
    /\ \E e \in pending : subentry' = e
    /\ WrapperEnter
    /\ UNCHANGED <<fs, uPc, pending, uExc>>
    /\ UNCHANGED UnpFrame /\ UnpGhostUnchanged

\* move_entry: subentry.rename(dl_dir_path / subentry.name), which a
\* transient lock may fail with PermissionError
MoveCall ==
    /\ uPc = "move" /\ rPc = "call"
    /\ LET target == Append(dl_dir_path, subentry[Len(subentry)])
       IN  \E o \in rename_outcomes(fs, subentry, target) \cup {"PermissionError"} :
             /\ WrapperCall(o)
             /\ fs' = IF o = "ok" THEN rename(fs, subentry, target) ELSE fs
    /\ UNCHANGED <<uPc, pending, subentry, uExc>>
    /\ UNCHANGED UnpFrame /\ UnpGhostUnchanged

\* time.sleep between two attempts of move_entry or remove_dir
FlattenSleep ==
    /\ uPc \in {"move", "rmdir"}
    /\ WrapperSleep
    /\ UNCHANGED <<fs, uPc, pending, subentry, uExc>>
    /\ UNCHANGED UnpFrame /\ UnpGhostUnchanged

\* move_entry() returned: next iteration of the for loop
MoveReturn ==
    /\ uPc = "move" /\ rPc = "returned"
    /\ pending' = pending \ {subentry}
    /\ rPc' = "idle"
    /\ UNCHANGED <<max_attempts, attempt, delay, history, sleepLog, rExc>>
    /\ UNCHANGED <<fs, uPc, subentry, uExc>>
    /\ UNCHANGED UnpFrame /\ UnpGhostUnchanged

\* the loop is over: the decorated remove_dir is called
RmdirEnter ==
    /\ uPc = "move" /\ rPc = "idle" /\ pending = {}
    /\ uPc' = "rmdir"
    /\ WrapperEnter
    /\ UNCHANGED <<fs, pending, subentry, uExc>>
    /\ UNCHANGED UnpFrame /\ UnpGhostUnchanged

\* remove_dir: entries[0].rmdir()
RmdirCall ==
    /\ uPc = "rmdir" /\ rPc = "call"
    /\ \E o \in {rmdir_outcome(fs, Wrapping), "PermissionError"} :
         /\ WrapperCall(o)
         /\ fs' = IF o = "ok" THEN rmdir(fs, Wrapping) ELSE fs
    /\ UNCHANGED <<uPc, pending, subentry, uExc>>
    /\ UNCHANGED UnpFrame /\ UnpGhostUnchanged

\* remove_dir() returned: return dl_dir_path
RmdirReturn ==
    /\ uPc = "rmdir" /\ rPc = "returned"
    /\ uPc' = "done"
    /\ rPc' = "idle"
    /\ UNCHANGED <<max_attempts, attempt, delay, history, sleepLog, rExc>>
    /\ UNCHANGED <<fs, pending, subentry, uExc>>
    /\ UNCHANGED UnpFrame /\ UnpGhostUnchanged

\* the wrapper re-raised: the exception leaves download_and_unpack_artifact
FlattenRaise ==
    /\ uPc \in {"move", "rmdir"} /\ rPc = "raised"
    /\ Raise(rExc)
    /\ UNCHANGED retryVars
    /\ UNCHANGED <<fs, pending, subentry>>
    /\ UNCHANGED UnpFrame /\ UnpGhostUnchanged

(* The artifacts and the destinations the runs start from.                 *)
FileMemberPaths == {<<"x">>, <<"p">>, <<"W", "x">>, <<"W", "W">>, <<"W", "p">>}

DirMemberPaths == {<<"W">>, <<"W", "W">>, <<"W", "V">>, <<"p">>}

PlainMembers ==
    [path : FileMemberPaths, kind : {"file"}, data : {Plain}, attr : {0}]
        \cup [path : DirMemberPaths, kind : {"dir"}, data : {Plain}, attr : {0}]

\* member lists of at most MaxMembers members, no path twice
MemberLists(universe) ==
    {l \in UNION {[1..n -> universe] : n \in 0..MaxMembers} :
        \A i, j \in 1..Len(l) : i # j => l[i].path # l[j].path}

\* a file that is itself an archive
Repacked ==
    [path |-> <<"x">>, kind |-> "file", attr |-> 0,
     data |-> [fmt |-> "zip",
               members |-> <<[path |-> <<"x">>, kind |-> "file", data |-> Plain,
                              attr |-> 0]>>]]

\* the nested archives: plain members, or nothing but another archive
InnerArchives ==
    [fmt : {"tar", "zip"}, members : MemberLists(PlainMembers)]
        \cup [fmt : {"tar", "zip"}, members : {<<Repacked>>}]

\* the nested archive as a member of the downloaded zip
Packed(a) == [path |-> <<"p">>, kind |-> "file", data |-> a, attr |-> 0]

\* what the download leaves in the file: a zip of plain members, a zip that
\* holds one nested archive, alone or beside one plain file, or a body that
\* is no archive at all
Artifacts ==
    [fmt : {"zip"}, members : MemberLists(PlainMembers)]
        \cup {Plain}
        \cup {[fmt |-> "zip", members |-> <<Packed(a)>>] : a \in InnerArchives}
        \cup {[fmt |-> "zip", members |-> <<Packed(a), [path |-> <<"x">>, kind |-> "file", data |-> Plain, attr |-> 0]>>] :
                a \in InnerArchives}

\* the destination before the run: nothing, or what an earlier run left
PreFilesystems ==
    {NoFs,
     WithDirs(NoFs, {dest_parent_dir, dl_dir_path}, "pre"),
     (Append(dl_dir_path, "x") :> Node("file", Plain, "pre"))
        @@ WithDirs(NoFs, {dest_parent_dir, dl_dir_path}, "pre"),
     (Append(dl_dir_path, "o") :> Node("file", Plain, "pre"))
        @@ WithDirs(NoFs, {dest_parent_dir, dl_dir_path}, "pre")}

\* download_and_unpack_artifact is called: nothing has happened yet
UnpStart ==
    /\ preFs = fs
    /\ uPc = "download"
    /\ file_path = NoPath
    /\ dest_dir = NoPath
    /\ opened = Plain
    /\ memIdx = 1
    /\ clobbered = FALSE
    /\ pending = {}
    /\ subentry = NoPath
    /\ uExc = "none"
    /\ innerSnap = NoSnap
    /\ flatSnap = NoFs
    /\ unlinkLog = <<>>
    /\ extLog = <<>>

UnpInit ==
    /\ remote \in Artifacts
    /\ fs \in PreFilesystems
    /\ UnpStart

(* Zip archives whose entries carry Unix attributes (external_attr >> 16): *)
(* a type and permission bits, 0o100644 = 33188, 0o100755 = 33261,         *)
(* 0o040555 = 16749, and 0o120777 = 41471 for a symbolic link, whose data  *)
(* is the text of its target.                                              *)
AttrMembers ==
    {[path |-> <<"x">>, kind |-> "file", data |-> Plain, attr |-> 33188],
     [path |-> <<"W">>, kind |-> "dir", data |-> Plain, attr |-> 0],
     [path |-> <<"W">>, kind |-> "dir", data |-> Plain, attr |-> 16749],
     [path |-> <<"W", "x">>, kind |-> "file", data |-> Plain, attr |-> 33261],
     [path |-> <<"l">>, kind |-> "file", data |-> LinkText("x"), attr |-> 41471],
     [path |-> <<"W">>, kind |-> "file", data |-> LinkText("x"), attr |-> 41471],
     [path |-> <<"W", "l">>, kind |-> "file", data |-> LinkText("x"), attr |-> 41471]}

AttrArchives == [fmt : {"zip"}, members : MemberLists(AttrMembers)]

\* such a zip as the download itself, or as the nested archive of it
AttrArtifacts ==
    AttrArchives \cup {[fmt |-> "zip", members |-> <<Packed(a)>>] : a \in AttrArchives}

\* the destination before the run: nothing, or what an earlier run left,
\* a link and its target, or a directory where the link is to be
AttrPreFilesystems ==
    PreFilesystems \cup
    {(Append(dl_dir_path, "l") :> Node("symlink", LinkText("x"), "pre"))
        @@ (Append(dl_dir_path, "x") :> Node("file", Plain, "pre"))
        @@ WithDirs(NoFs, {dest_parent_dir, dl_dir_path}, "pre"),
     WithDirs(NoFs, {dest_parent_dir, dl_dir_path, Append(dl_dir_path, "l")}, "pre")}

UnzInit ==
    /\ remote \in AttrArtifacts
    /\ fs \in AttrPreFilesystems
    /\ UnpStart

UnpIdle ==
    /\ remote = Plain
    /\ fs = NoFs
    /\ preFs = NoFs
    /\ uPc = "idle"
    /\ file_path = NoPath
    /\ dest_dir = NoPath
    /\ opened = Plain
    /\ memIdx = 1
    /\ clobbered = FALSE
    /\ pending = {}
    /\ subentry = NoPath
    /\ uExc = "none"
    /\ innerSnap = NoSnap
    /\ flatSnap = NoFs
    /\ unlinkLog = <<>>
    /\ extLog = <<>>

(***************************************************************************)
(* generate_manifest.py.  A name inside an archive is [dirs, base]: the    *)
(* directories of the path and the file name split at its dots ("x.so.1"   *)
(* is <<"x", "so", "1">>; a directory entry "a/b/" has base <<"">>).  An   *)
(* archive's stem is split at its dashes.                                  *)
(***************************************************************************)
MaxArchives == 2

MaxFiles == 3

Lib == <<"onnxruntime", "lib">>

Bin == <<"onnxruntime", "bin">>

ArchiveNames ==
    {[dirs |-> Lib, base |-> <<"libonnxruntime_sx", "so">>],
     [dirs |-> Lib, base |-> <<"libonnxruntime", "so", "1">>],
     [dirs |-> Lib, base |-> <<"onnxruntime", "lib">>],
     [dirs |-> Bin, base |-> <<"onnxruntime_sx", "dll">>],
     [dirs |-> <<"onnxruntime", "lib", "sub">>, base |-> <<"a", "so">>]}

\* the archives find_archives can find, in the order sorted() gives them:
\* artifacts/ORT-1-Win.zip, artifacts/linux.zip, artifacts/ort-1-linux.zip,
\* artifacts/ort-2-linux.zip, artifacts/sub/ort-1-linux.zip
ArchivePaths ==
    <<[sub |-> FALSE, stem |-> <<"ORT", "1", "Win">>],
      [sub |-> FALSE, stem |-> <<"linux">>],
      [sub |-> FALSE, stem |-> <<"ort", "1", "linux">>],
      [sub |-> FALSE, stem |-> <<"ort", "2", "linux">>],
      [sub |-> TRUE, stem |-> <<"ort", "1", "linux">>]>>

\* what a found path holds: something open() fails on, something that is no
\* zip, or a zip with its namelist
Contents ==
    {[kind |-> "unreadable", files |-> {}], [kind |-> "malformed", files |-> {}]}
        \cup [kind : {"zip"}, files : {fl \in SUBSET ArchiveNames : Cardinality(fl) <= MaxFiles}]

\* f.startswith(directory + "/")
StartsWithDir(f, directory) ==
    Len(f.dirs) >= Len(directory) /\ SubSeq(f.dirs, 1, Len(directory)) = directory

find_lib_directory(files) ==
    IF \E f \in files : StartsWithDir(f, Bin) THEN Bin
    ELSE IF \E f \in files : StartsWithDir(f, Lib) THEN Lib
    ELSE <<>>

\* the names directly in the directory, relative to it
get_files_in_directory(files, directory) ==
    {f.base : f \in {g \in files : g.dirs = directory /\ g.base # <<"">>}}

MainLibraryNames ==
    {<<"onnxruntime_sx", "dll">>, <<"onnxruntime_sxd", "dll">>,
     <<"libonnxruntime_sx", "so">>, <<"libonnxruntime_sxd", "so">>,
     <<"libonnxruntime_sx", "dylib">>, <<"libonnxruntime_sxd", "dylib">>,
     <<"onnxruntime", "lib">>, <<"onnxruntimed", "lib">>,
     <<"libonnxruntime", "a">>, <<"libonnxruntimed", "a">>}

\* find_onnxruntime_library returns the first main-library name the iteration
\* of the set meets: any of these, none if the set is empty
find_onnxruntime_library(files) == files \cap MainLibraryNames

\* f.endswith((".dll", ".so", ".dylib", ".pdb")) or ".so." in f
IsExtra(f) ==
    \/ Len(f) >= 2 /\ f[Len(f)] \in {"dll", "so", "dylib", "pdb"}
    \/ \E i \in 2..(Len(f) - 1) : f[i] = "so"

\* the names of ArchiveNames in the order of str.__lt__ (code points):
\* "." comes before "_"
NameOrder ==
    <<<<"a", "so">>, <<"libonnxruntime", "so", "1">>, <<"libonnxruntime_sx", "so">>,
      <<"onnxruntime", "lib">>, <<"onnxruntime_sx", "dll">>>>

\* sorted(names)
sorted(names) ==
    LET in(n) == n \in names
    IN  SelectSeq(NameOrder, in)

\* variant: the main library is not skipped
get_extra_filesMutant(files, ort_library) == sorted({f \in files : IsExtra(f)})

get_extra_files(files, ort_library) ==
    sorted({f \in files : f # ort_library /\ IsExtra(f)})

\* str.lower on one dash-separated part
Lower(part) ==
    CASE part = "ORT" -> "ort"
      [] part = "Win" -> "win"
      [] OTHER -> part

strip_version_prefix(stem_) ==
    IF Len(stem_) >= 3 /\ stem_[1] = "ort" THEN SubSeq(stem_, 3, Len(stem_)) ELSE stem_

\* strip_version_prefix(archive.stem).lower()
ManifestKey(stem_) ==
    [i \in 1..Len(strip_version_prefix(stem_)) |-> Lower(strip_version_prefix(stem_)[i])]

NoEntry == [file |-> <<>>, sha256 |-> {}, dir |-> <<>>, ort_lib |-> <<>>, extra_files |-> <<>>]

NoFile == [written |-> FALSE, content |-> <<>>]

\* calculate_sha256 is outside the try of process_artifact: does open() fail
sha256_raises(c) == c.kind = "unreadable"

(* process_artifact(ArchivePaths[idx]) on content c: the possible          *)
(* [idx, kind, reported, entry]; for kind "unreadable" the exception of    *)
(* open() leaves process_artifact and main.                                *)
process_artifact(idx, c) ==
    LET lib_dir == find_lib_directory(c.files)
        lib_files == get_files_in_directory(c.files, lib_dir)
        out(k, r, e) == [idx |-> idx, kind |-> k, reported |-> r, entry |-> e]
    IN  IF sha256_raises(c) THEN {out("unreadable", FALSE, NoEntry)}
        ELSE IF c.kind # "zip" THEN {out("malformed", TRUE, NoEntry)}
        ELSE IF lib_dir = <<>> THEN {out("nolibdir", TRUE, NoEntry)}
        ELSE IF find_onnxruntime_library(lib_files) = {} THEN {out("nolib", TRUE, NoEntry)}
        ELSE {out("entry", FALSE,
                  [file |-> Append(ArchivePaths[idx].stem, "zip"),
                   sha256 |-> c.files,
                   dir |-> lib_dir,
                   ort_lib |-> lib,
                   extra_files |-> get_extra_files(lib_files, lib)]) :
                lib \in find_onnxruntime_library(lib_files)}

\* the idx-th archive of sorted(archives)
NextArchive == CHOOSE i \in found : Cardinality({j \in found : j < i}) = mDone

\* main up to the loop: artifacts/ must exist and hold an archive
ManStart ==
    /\ mPc = "start"
    /\ mPc' = IF ~artifactsDir \/ found = {} THEN "returned" ELSE "loop"
    /\ UNCHANGED <<artifactsDir, found, mDone, manifest, manifestFile, mLog>>

\* one iteration of `for archive in sorted(archives)`
ManProcess ==
    /\ mPc = "loop"
    /\ mDone < Cardinality(found)
    /\ \E c \in Contents : \E r \in process_artifact(NextArchive, c) :
         /\ mLog' = Append(mLog, r)
         /\ mDone' = mDone + 1
         /\ mPc' = IF r.kind = "unreadable" THEN "crashed" ELSE "loop"
         /\ manifest' = IF r.kind = "entry"
                          THEN [k \in DOMAIN manifest \cup {ManifestKey(ArchivePaths[NextArchive].stem)} |->
                                  IF k = ManifestKey(ArchivePaths[NextArchive].stem)
                                    THEN r.entry ELSE manifest[k]]
                          ELSE manifest
    /\ UNCHANGED <<artifactsDir, found, manifestFile>>

\* json.dump(manifest, f) after the loop
ManWrite ==
    /\ mPc = "loop"
    /\ mDone = Cardinality(found)
    /\ manifestFile' = [written |-> TRUE, content |-> manifest]
    /\ mPc' = "written"
    /\ UNCHANGED <<artifactsDir, found, mDone, manifest, mLog>>

ManInit ==
    /\ artifactsDir \in BOOLEAN
    /\ found \in {fd \in SUBSET (1..Len(ArchivePaths)) : Cardinality(fd) <= MaxArchives}
    /\ artifactsDir = FALSE => found = {}
    /\ mPc = "start"
    /\ mDone = 0
    /\ manifest = <<>>
    /\ manifestFile = NoFile
    /\ mLog = <<>>

ManIdle ==
    /\ artifactsDir = FALSE
    /\ found = {}
    /\ mPc = "idle"
    /\ mDone = 0
    /\ manifest = <<>>
    /\ manifestFile = NoFile
    /\ mLog = <<>>

(***************************************************************************)
(* fetch_artifacts.main, from the parsed arguments on.  The call of        *)
(* download_and_unpack_artifact is one step that returns or raises (both   *)
(* happen, see SpecUnpack).                                                *)
(***************************************************************************)
\* variant: `if not target_run` is never true
NoTargetMutant(run) == FALSE

\* `not target_run`
NoTarget(run) == run = NoRun

\* line 313: target_run.get_artifacts(), every artifact of the run
ArtifactsToFetch(run) == run.artifacts

\* the orders in which a listing can yield the names
Listings(names) ==
    {l \in [1..Cardinality(names) -> names] :
        \A i, j \in 1..Cardinality(names) : i # j => l[i] # l[j]}

\* lines 292-296: with a run id the run is fetched as it is, without one
\* get_last_successful_run is called
DrvStart ==
    /\ dPc = "start"
    /\ IF args_run = "given"
         THEN /\ \E run \in Runs : target_run' = run
              /\ dPc' = "list"
              /\ UNCHANGED selVars
         ELSE /\ dPc' = "select"
              /\ sPc' = "iterate"
              /\ UNCHANGED <<target_run, pattern, totalRuns, runIdx, passLog, selResult>>
    /\ UNCHANGED <<args_run, listing, dlLog>>

\* lines 296-301: get_last_successful_run returned; without a run the
\* message is printed and exit() is called
DrvSelected ==
    /\ dPc = "select" /\ sPc = "done"
    /\ target_run' = selResult
    /\ dPc' = IF NoTarget(selResult) THEN "exited" ELSE "list"
    /\ UNCHANGED <<args_run, listing, dlLog>>
    /\ UNCHANGED selVars

\* lines 303-313: the assertion, the destination, the listing of the artifacts
DrvList ==
    /\ dPc = "list"
    /\ IF target_run = NoRun
         THEN dPc' = "raised" /\ UNCHANGED listing
         ELSE /\ \E l \in Listings(ArtifactsToFetch(target_run)) : listing' = l
              /\ dPc' = "loop"
    /\ UNCHANGED <<args_run, target_run, dlLog>>
    /\ UNCHANGED selVars

\* lines 313-315: download_and_unpack_artifact for the next artifact of the
\* listing; an exception it raises leaves the loop and main
DrvProcess ==
    /\ dPc = "loop"
    /\ Len(dlLog) < Len(listing)
    /\ dlLog' = Append(dlLog, listing[Len(dlLog) + 1])
    /\ \E o \in {"returned", "raised"} : dPc' = IF o = "raised" THEN "raised" ELSE "loop"
    /\ UNCHANGED <<args_run, target_run, listing>>
    /\ UNCHANGED selVars

\* the listing is exhausted: main returns
DrvFinish ==
    /\ dPc = "loop"
    /\ Len(dlLog) = Len(listing)
    /\ dPc' = "finished"
    /\ UNCHANGED <<args_run, target_run, listing, dlLog>>
    /\ UNCHANGED selVars

\* the run list is only fetched by get_last_successful_run
DrvInit ==
    /\ args_run \in {"given", "none"}
    /\ pattern \in Patterns
    /\ totalRuns \in 0..MaxRuns
    /\ args_run = "given" => totalRuns = 0
    /\ sPc = "idle"
    /\ runIdx = 0
    /\ passLog = <<>>
    /\ selResult = NoRun
    /\ dPc = "start"
    /\ target_run = NoRun
    /\ listing = <<>>
    /\ dlLog = <<>>

DrvIdle ==
    /\ args_run = "none"
    /\ dPc = "idle"
    /\ target_run = NoRun
    /\ listing = <<>>
    /\ dlLog = <<>>

(***************************************************************************)
(* Specifications                                                          *)
(***************************************************************************)
RetryInit ==
    /\ max_attempts \in 1..DefaultMaxAttempts
    /\ rPc = "call"
    /\ attempt = 0
    /\ delay = InitialDelay
    /\ history = <<>>
    /\ sleepLog = <<>>
    /\ rExc = "none"

\* the wrapped operation is called and returns or raises
RetryCall ==
    /\ \E o \in {"ok"} \cup OSErrorClasses \cup OtherClasses : WrapperCall(o)
    /\ UNCHANGED <<selVars, unpVars, manVars, drvVars>>

RetrySleep == WrapperSleep /\ UNCHANGED <<selVars, unpVars, manVars, drvVars>>

RetryNext == RetryCall \/ RetrySleep

InitRetry == RetryInit /\ SelIdle /\ UnpIdle /\ ManIdle /\ DrvIdle

SpecRetry == InitRetry /\ [][RetryNext]_vars

SelNext ==
    \/ SelIterate /\ UNCHANGED <<retryVars, unpVars, manVars, drvVars>>
    \/ SelReturnNone /\ UNCHANGED <<retryVars, unpVars, manVars, drvVars>>

InitSelect == SelInit /\ RetryIdle /\ UnpIdle /\ ManIdle /\ DrvIdle

SpecSelect == InitSelect /\ [][SelNext]_vars

UnpNext ==
    \/ Download /\ UNCHANGED <<retryVars, selVars, manVars, drvVars>>
    \/ UnpackBegin /\ UNCHANGED <<retryVars, selVars, manVars, drvVars>>
    \/ ExtractMember /\ UNCHANGED <<retryVars, selVars, manVars, drvVars>>
    \/ UnlinkArchive /\ UNCHANGED <<retryVars, selVars, manVars, drvVars>>
    \/ NestedCheck /\ UNCHANGED <<retryVars, selVars, manVars, drvVars>>
    \/ DirCheck /\ UNCHANGED <<retryVars, selVars, manVars, drvVars>>
    \/ MoveEnter /\ UNCHANGED <<selVars, manVars, drvVars>>
    \/ MoveCall /\ UNCHANGED <<selVars, manVars, drvVars>>
    \/ FlattenSleep /\ UNCHANGED <<selVars, manVars, drvVars>>
    \/ MoveReturn /\ UNCHANGED <<selVars, manVars, drvVars>>
    \/ RmdirEnter /\ UNCHANGED <<selVars, manVars, drvVars>>
    \/ RmdirCall /\ UNCHANGED <<selVars, manVars, drvVars>>
    \/ RmdirReturn /\ UNCHANGED <<selVars, manVars, drvVars>>
    \/ FlattenRaise /\ UNCHANGED <<selVars, manVars, drvVars>>

InitUnpack == UnpInit /\ RetryIdle /\ SelIdle /\ ManIdle /\ DrvIdle

SpecUnpack == InitUnpack /\ [][UnpNext]_vars

InitUnzip == UnzInit /\ RetryIdle /\ SelIdle /\ ManIdle /\ DrvIdle

SpecUnzip == InitUnzip /\ [][UnpNext]_vars

ManNext ==
    \/ ManStart /\ UNCHANGED <<retryVars, selVars, unpVars, drvVars>>
    \/ ManProcess /\ UNCHANGED <<retryVars, selVars, unpVars, drvVars>>
    \/ ManWrite /\ UNCHANGED <<retryVars, selVars, unpVars, drvVars>>

InitManifest == ManInit /\ RetryIdle /\ SelIdle /\ UnpIdle /\ DrvIdle

SpecManifest == InitManifest /\ [][ManNext]_vars

DrvNext ==
    \/ DrvStart /\ UNCHANGED <<retryVars, unpVars, manVars>>
    \/ SelIterate /\ UNCHANGED <<retryVars, unpVars, manVars, drvVars>>
    \/ SelReturnNone /\ UNCHANGED <<retryVars, unpVars, manVars, drvVars>>
    \/ DrvSelected /\ UNCHANGED <<retryVars, unpVars, manVars>>
    \/ DrvList /\ UNCHANGED <<retryVars, unpVars, manVars>>
    \/ DrvProcess /\ UNCHANGED <<retryVars, unpVars, manVars>>
    \/ DrvFinish /\ UNCHANGED <<retryVars, unpVars, manVars>>

InitDriver == DrvInit /\ RetryIdle /\ UnpIdle /\ ManIdle

SpecDriver == InitDriver /\ [][DrvNext]_vars

(***************************************************************************)
(* Claims about retry_on_permission_error (SpecRetry)                      *)
(***************************************************************************)
\* the calls 1..n of the wrapped operation all raised PermissionError/OSError
AllOSFailures(n) == \A i \in 1..n : history[i] \in OSErrorClasses

(* C2: an operation that raises PermissionError/OSError on its first N     *)
(* calls and then succeeds is called exactly N+1 times and its result      *)
(* returned when N < max_attempts; when the first max_attempts calls all   *)
(* fail that way the wrapper stops after exactly max_attempts calls and    *)
(* propagates the exception of the last call.                              *)
C2_RetryOutcome ==
    /\ Len(history) <= max_attempts
    /\ rPc \in {"call", "sleep"} => Len(history) < max_attempts
    /\ rPc = "returned" =>
          /\ history[Len(history)] = "ok"
          /\ AllOSFailures(Len(history) - 1)
          /\ Len(history) - 1 < max_attempts
    /\ (rPc = "raised" /\ AllOSFailures(Len(history))) =>
          /\ Len(history) = max_attempts
          /\ rExc = history[Len(history)]

C2_Witness ==
    /\ rPc = "raised"
    /\ max_attempts = DefaultMaxAttempts
    /\ Len(history) = DefaultMaxAttempts
    /\ AllOSFailures(Len(history))
    /\ history[1] = "PermissionError"
    /\ rExc = "FileExistsError"

(* C7: a call that raises an exception that is neither PermissionError nor *)
(* an OSError is the wrapper's last call: that exception is propagated at  *)
(* once, with no sleep after it.                                           *)
C7_OtherExceptionImmediate ==
    \A i \in 1..Len(history) :
        history[i] \in OtherClasses =>
            /\ i = Len(history)
            /\ rPc = "raised"
            /\ rExc = history[i]
            /\ Len(sleepLog) = i - 1

C7_Witness ==
    /\ rPc = "raised"
    /\ Len(history) = 3
    /\ history[3] = "ValueError"
    /\ max_attempts = DefaultMaxAttempts

(***************************************************************************)
(* Claims about get_last_successful_run (SpecSelect)                       *)
(***************************************************************************)
Returned == sPc = "done" /\ selResult # NoRun

(* C1: in every run returned, each job whose name matches the pattern has  *)
(* an artifact of the run that matches the pattern and whose name is       *)
(* contained in that job's name.                                           *)
C1_EveryMatchingJobHasArtifact ==
    Returned =>
        \A k \in 1..Len(selResult.jobs) :
            fnmatch(selResult.jobs[k], pattern) =>
                \E a \in selResult.artifacts :
                    fnmatch(a, pattern) /\ IsSubstring(a, selResult.jobs[k])

(* C6: every run returned has conclusion "success", at least one job       *)
(* matching the pattern, and as many matching jobs as artifacts that match *)
(* the pattern and are contained in a matching job's name.                 *)
C6_ReturnedRunAccepted == Returned => AcceptanceTest(selResult)

C6_Witness ==
    /\ Returned
    /\ Len(selResult.jobs) = 2
    /\ Cardinality(selResult.artifacts) = 3
    /\ pattern = <<"a", "*">>

(* C10: the run returned is the first of the provider's order that passes  *)
(* the acceptance test, and None is returned exactly when every run of the *)
(* list was examined and none passes.                                      *)
C10_FirstAcceptedRun ==
    sPc = "done" =>
        /\ runIdx = Len(passLog)
        /\ \A i \in 1..(Len(passLog) - 1) : ~passLog[i]
        /\ IF selResult = NoRun
             THEN Len(passLog) = totalRuns /\ \A i \in 1..Len(passLog) : ~passLog[i]
             ELSE passLog[Len(passLog)]

C10_Witness ==
    /\ Returned
    /\ totalRuns = 3
    /\ runIdx = 2
    /\ passLog = <<FALSE, TRUE>>

(***************************************************************************)
(* Claims about download_and_unpack_artifact (SpecUnpack)                  *)
(***************************************************************************)
\* step 3 found a single tar or zip file and unpacked it in place
NestedFired == innerSnap # NoSnap

\* step 4 found a single directory and began to move its children up
FlattenFired == flatSnap # NoFs

(* C3: when step 4 finds the artifact directory holding exactly one entry, *)
(* a directory W, the step ends with the tree that was under W now         *)
(* directly under the artifact directory, path for path, and nothing else; *)
(* it fails only when a lock outlasts the retries.                         *)
C3_FlattenPreservesPaths ==
    FlattenFired =>
        /\ uPc = "done" => Subtree(fs, dl_dir_path) = Subtree(flatSnap, Wrapping)
        /\ uPc = "raised" => uExc = "PermissionError"

(* C4: a run whose destination dest_parent_dir/<artifact-name> exists and  *)
(* is populated goes no further than the creation of that directory and    *)
(* leaves its contents as they were.                                       *)
C4_PopulatedDestinationRefused ==
    iterdir(preFs, dl_dir_path) # {} =>
        /\ uPc \in {"download", "outer_begin", "raised"}
        /\ Subtree(fs, dl_dir_path) = Subtree(preFs, dl_dir_path)

(* C5: when step 3 finds a single tar or zip file A and the call returns,  *)
(* every member of A is in the artifact directory at its own path (one     *)
(* level up when step 4 collapsed the single directory they were under),   *)
(* and the file of A is gone.                                              *)
C5_NestedArchiveUnpackedInPlace ==
    (NestedFired /\ uPc = "done") =>
        /\ \A i \in 1..Len(innerSnap.data.members) :
              LET m == innerSnap.data.members[i]
                  at == dl_dir_path \o (IF FlattenFired THEN Tail(m.path) ELSE m.path)
              IN  \/ FlattenFired /\ m.kind = "dir" /\ dl_dir_path \o m.path = Wrapping
                  \/ /\ exists(fs, at)
                     /\ fs[at].kind = m.kind
                     /\ m.kind = "file" => fs[at].data = m.data
        /\ ~(exists(fs, innerSnap.path) /\ fs[innerSnap.path].src = "outer")

\* the step that made the archive unlinkLog[i] names
ArchiveSrc(i) == IF i = 1 THEN "dl" ELSE "outer"

(* C8: unpack_and_delete_archive unlinks its archive once, when no member  *)
(* is left to extract, and from its return on the archive's file does not  *)
(* exist: the downloaded zip once the first call returned, the nested      *)
(* archive once the second did.                                            *)
C8_ArchiveDeletedAfterExtraction ==
    /\ \A i \in 1..Len(unlinkLog) :
          /\ unlinkLog[i].left = 0
          /\ \A j \in 1..Len(unlinkLog) : unlinkLog[j].path = unlinkLog[i].path => j = i
          /\ ~(exists(fs, unlinkLog[i].path) /\ fs[unlinkLog[i].path].src = ArchiveSrc(i))
    /\ uPc \in {"nested_check", "inner_begin", "inner_extract", "dir_check", "move", "rmdir", "done"} =>
          /\ Len(unlinkLog) >= 1
          /\ unlinkLog[1].path = dl_file_path
          /\ ~exists(fs, dl_file_path)
    /\ (NestedFired /\ uPc \in {"dir_check", "move", "rmdir", "done"}) =>
          /\ Len(unlinkLog) = 2
          /\ unlinkLog[2].path = innerSnap.path

C8_Witness ==
    /\ uPc = "done"
    /\ Len(unlinkLog) = 2
    /\ Len(innerSnap.data.members) = 2
    /\ exists(fs, innerSnap.path)

(***************************************************************************)
(* Claims about generate_manifest.main (SpecManifest)                      *)
(***************************************************************************)
(* C9: no archive stops main: an archive that is malformed or unreadable   *)
(* is reported and gets no entry, and the manifest written holds, under    *)
(* its key, the entry of every archive that gave one.                      *)
C9_BadArchiveSkipped ==
    /\ mPc # "crashed"
    /\ \A i \in 1..Len(mLog) :
          mLog[i].kind \in {"malformed", "unreadable"} =>
              mLog[i].reported /\ mLog[i].entry = NoEntry
    /\ mPc = "written" =>
          \A i \in 1..Len(mLog) :
              mLog[i].kind = "entry" =>
                  \E k \in DOMAIN manifestFile.content :
                      manifestFile.content[k].file = mLog[i].entry.file

(***************************************************************************)
(* Claims about the backoff schedule (SpecRetry)                           *)
(***************************************************************************)
RECURSIVE Pow2(_)
Pow2(n) == IF n = 0 THEN 1 ELSE 2 * Pow2(n - 1)

RECURSIVE SumSeq(_)
SumSeq(s) == IF s = <<>> THEN 0 ELSE s[1] + SumSeq(Tail(s))

(* C14: the k-th sleep of the wrapper lasts initial_delay * 2^(k-1); an    *)
(* operation that fails N < max_attempts times and then succeeds has been  *)
(* preceded by exactly N sleeps whose total is initial_delay * (2^N - 1).  *)
C14_BackoffSchedule ==
    /\ \A k \in 1..Len(sleepLog) : sleepLog[k] = InitialDelay * Pow2(k - 1)
    /\ rPc = "returned" =>
          LET N == Len(history) - 1
          IN  /\ N < max_attempts
              /\ Len(sleepLog) = N
              /\ SumSeq(sleepLog) = InitialDelay * (Pow2(N) - 1)

C14_Witness ==
    /\ rPc = "returned"
    /\ Len(history) = 4
    /\ sleepLog = <<InitialDelay, 2 * InitialDelay, 4 * InitialDelay>>

(***************************************************************************)
(* Claims about unpack_and_delete_archive (SpecUnpack)                     *)
(***************************************************************************)
(* C13: unpack_and_delete_archive on a file that is neither a tar nor a    *)
(* zip archive fails with an error, extracts nothing into the destination  *)
(* and leaves the file in place with its content.                          *)
C13_NotAnArchiveFails ==
    (uPc \notin {"download", "outer_begin"} /\ file_path = dl_file_path
        /\ ~is_tarfile(remote) /\ ~is_zipfile(remote)) =>
        /\ uPc = "raised"
        /\ uExc = "AssertionError"
        /\ unlinkLog = <<>>
        /\ is_file(fs, dl_file_path)
        /\ fs[dl_file_path].data = remote
        /\ Subtree(fs, dl_dir_path) = Subtree(preFs, dl_dir_path)

C13_Witness ==
    /\ uPc = "raised"
    /\ uExc = "AssertionError"
    /\ remote = Plain
    /\ is_file(fs, dl_file_path)
    /\ is_dir(fs, dl_dir_path)
    /\ lexists(preFs, Append(dl_dir_path, "x"))

(***************************************************************************)
(* Claims about unzip() (SpecUnzip)                                        *)
(***************************************************************************)
\* unzip() is going through the entries of `opened`, or has just left the
\* loop with the exception of an entry (whose note is the last of extLog)
InUnzip ==
    /\ opened.fmt = "zip"
    /\ \/ uPc \in {"outer_extract", "inner_extract"}
       \/ uPc = "raised" /\ Len(extLog) = memIdx

(* C12: for every zip entry whose attributes mark a symbolic link, the     *)
(* extraction leaves at the entry's path a symbolic link with exactly the  *)
(* stored target text or, only when the platform refused to create the     *)
(* link, a regular file with exactly that text; nothing else happens and   *)
(* the extraction goes on with the next entry.                             *)
C12_SymlinkEntryOutcome ==
    InUnzip =>
        \A i \in 1..Len(extLog) :
            LET m == opened.members[i]
                t == dest_dir \o m.path
            IN  S_ISLNK(m.attr) =>
                  /\ i < memIdx
                  /\ lexists(fs, t)
                  /\ fs[t].data = m.data
                  /\ \/ fs[t].kind = "symlink"
                     \/ fs[t].kind = "file" /\ extLog[i] = "fallback_rejected"

(* C16: for every zip entry that is not a symbolic link and stores         *)
(* non-zero permission bits, the extracted path has exactly these bits     *)
(* once os.chmod was accepted; when os.chmod failed the extraction went on *)
(* with the next entry all the same.                                       *)
C16_PermissionBitsApplied ==
    InUnzip =>
        \A i \in 1..Len(extLog) :
            LET m == opened.members[i]
                t == dest_dir \o m.path
            IN  (~S_ISLNK(m.attr) /\ S_IMODE(m.attr) # 0) =>
                  /\ extLog[i] = "chmod_ok" =>
                        exists(fs, t) /\ fs[Follow(fs, t)].mode = S_IMODE(m.attr)
                  /\ extLog[i] = "chmod_failed" => i < memIdx
                  /\ i < memIdx => extLog[i] \in {"chmod_ok", "chmod_failed"}

\* os.chmod failed for the first entry; the second one was extracted and
\* got its bits, and the archive was deleted
C16_Witness ==
    /\ uPc = "nested_check"
    /\ Len(opened.members) = 2
    /\ extLog = <<"chmod_failed", "chmod_ok">>
    /\ unlinkLog = <<[path |-> dl_file_path, left |-> 0]>>
    /\ fs[Append(dl_dir_path, "W")].mode = DefaultMode
    /\ fs[dl_dir_path \o <<"W", "x">>].mode = 493

(***************************************************************************)
(* Claims about the two flattening steps (SpecUnpack)                      *)
(***************************************************************************)
(* C17: in one call the nested-archive step fires at most once and the     *)
(* single-directory step fires at most once, whatever the result looks     *)
(* like; and the nested-archive step changes nothing when the artifact     *)
(* directory has no entry or more than one.                                *)
C17_FlattenOnce ==
    [][/\ NestedFired => innerSnap' = innerSnap
       /\ FlattenFired => flatSnap' = flatSnap
       /\ Len(unlinkLog') <= 2
       /\ (uPc = "nested_check" /\ Cardinality(iterdir(fs, dl_dir_path)) # 1) =>
             /\ fs' = fs
             /\ innerSnap' = NoSnap
             /\ uPc' = "dir_check"]_vars

\* the nested archive held nothing but another archive, which is left as it is
C17_Witness ==
    /\ uPc = "done"
    /\ NestedFired
    /\ iterdir(fs, dl_dir_path) = {Append(dl_dir_path, "x")}
    /\ is_tar_or_zip_file(fs, Append(dl_dir_path, "x")) = "yes"
    /\ Len(unlinkLog) = 2

\* the children of the single subdirectory when the flattening began
Children == iterdir(flatSnap, Wrapping)

\* c is where it was, with all that is below it
UnderWrapper(c) ==
    /\ lexists(fs, c)
    /\ fs[c].kind = flatSnap[c].kind /\ fs[c].data = flatSnap[c].data
    /\ Subtree(fs, c) = Subtree(flatSnap, c)

\* c is in the artifact directory under its own name, with all that was below it
Moved(c) ==
    LET d == Append(dl_dir_path, c[Len(c)])
    IN  /\ lexists(fs, d)
        /\ fs[d].kind = flatSnap[c].kind /\ fs[d].data = flatSnap[c].data
        /\ Subtree(fs, d) = Subtree(flatSnap, c)

(* C18: from the moment the single subdirectory is being flattened, in     *)
(* every state, failures included, each of its children is in exactly one  *)
(* place: still under it or in the artifact directory; the subdirectory is *)
(* gone only when every child has been moved; and when a move or the       *)
(* removal gave up, the subdirectory is still there and the children moved *)
(* before stay where they were moved to.                                   *)
C18_NoPayloadLost ==
    FlattenFired =>
        /\ \A c \in Children : UnderWrapper(c) # Moved(c)
        /\ \A c \in Children \ pending : Moved(c)
        /\ ~lexists(fs, Wrapping) => \A c \in Children : Moved(c)
        /\ uPc = "raised" => lexists(fs, Wrapping) /\ fs[Wrapping].kind = "dir"

\* the second move gave up after its retries: one child moved, one left
C18_Witness ==
    /\ FlattenFired
    /\ uPc = "raised"
    /\ uExc = "PermissionError"
    /\ Len(history) = DefaultMaxAttempts
    /\ \E c, e \in Children : c # e /\ Moved(c) /\ UnderWrapper(e) /\ e \in pending
    /\ lexists(fs, Wrapping)

(***************************************************************************)
(* Claims about the manifest entries (SpecManifest)                        *)
(***************************************************************************)
\* the base names of the files of the archive directly inside directory
DirectlyInside(files, directory) ==
    {f.base : f \in {g \in files : g.dirs = directory /\ g.base # <<"">>}}

\* the name ends in .dll, .so, .dylib or .pdb
HasLibraryExtension(b) ==
    \E ext \in {"dll", "so", "dylib", "pdb"} :
        Len(b) >= 2 /\ SubSeq(b, Len(b), Len(b)) = <<ext>>

\* the name contains ".so.": a part "so" with a dot on both sides
HasSoInfix(b) == \E i \in 1..Len(b) : i > 1 /\ i < Len(b) /\ b[i] = "so"

\* a comes before b in NameOrder
Before(a, b) ==
    \E i, j \in 1..Len(NameOrder) : i < j /\ NameOrder[i] = a /\ NameOrder[j] = b

(* C15: in every manifest entry ort_lib is a file directly inside the      *)
(* entry's library directory whose name is one of the main-library names,  *)
(* and extra_files is the sorted list, without repetition, of exactly the  *)
(* other files directly inside that directory whose name ends in .dll,     *)
(* .so, .dylib or .pdb or contains ".so."; ort_lib is not among them.      *)
C15_EntryLibraryAndExtras ==
    \A n \in 1..Len(mLog) :
        mLog[n].kind = "entry" =>
            LET e == mLog[n].entry
                inside == DirectlyInside(e.sha256, e.dir)
                ex == e.extra_files
            IN  /\ e.dir \in {Bin, Lib}
                /\ e.ort_lib \in inside
                /\ e.ort_lib \in MainLibraryNames
                /\ \A i, j \in 1..Len(ex) : i < j => Before(ex[i], ex[j])
                /\ {ex[i] : i \in 1..Len(ex)} =
                      {b \in inside \ {e.ort_lib} : HasLibraryExtension(b) \/ HasSoInfix(b)}
                /\ \A i \in 1..Len(ex) : ex[i] # e.ort_lib

\* onnxruntime.lib is the main library beside two shared objects
C15_Witness ==
    \E n \in 1..Len(mLog) :
        /\ mLog[n].kind = "entry"
        /\ mLog[n].entry.dir = Lib
        /\ mLog[n].entry.ort_lib = <<"onnxruntime", "lib">>
        /\ mLog[n].entry.extra_files =
              <<<<"libonnxruntime", "so", "1">>, <<"libonnxruntime_sx", "so">>>>

(* C19: the choice of the main library is a function of the archive: two   *)
(* archives with the same list of names get the same ort_lib and the same  *)
(* extra_files, also when the library directory holds more than one of     *)
(* the main-library names.                                                 *)
C19_SelectionDeterministic ==
    \A i, j \in 1..Len(mLog) :
        (mLog[i].kind = "entry" /\ mLog[j].kind = "entry"
            /\ mLog[i].entry.sha256 = mLog[j].entry.sha256) =>
            /\ mLog[i].entry.ort_lib = mLog[j].entry.ort_lib
            /\ mLog[i].entry.extra_files = mLog[j].entry.extra_files

(***************************************************************************)
(* Claims about fetch_artifacts.main (SpecDriver)                          *)
(***************************************************************************)
(* C11: without a run id, when no run the selector took passes the         *)
(* acceptance test, main prints its message and exits: it never lists the  *)
(* artifacts of a run and never calls download_and_unpack_artifact.        *)
C11_NoRunNoDownload ==
    (args_run = "none" /\ sPc = "done" /\ \A i \in 1..Len(passLog) : ~passLog[i]) =>
        /\ dPc \in {"select", "exited"}
        /\ listing = <<>>
        /\ dlLog = <<>>

C11_Witness ==
    /\ args_run = "none"
    /\ dPc = "exited"
    /\ totalRuns = MaxRuns
    /\ Len(passLog) = MaxRuns
    /\ \A i \in 1..Len(passLog) : ~passLog[i]
    /\ dlLog = <<>>

(* C20: main calls download_and_unpack_artifact for every artifact of the  *)
(* target run, one after the other in the order of the listing and each at *)
(* most once, whether or not the artifact's name matches the pattern: when *)
(* main has ended, every artifact of the listing has been processed; and   *)
(* with a run id the selector is never run on the target run.              *)
C20_EveryArtifactProcessed ==
    /\ (dPc \in {"loop", "finished", "raised"} /\ target_run # NoRun) =>
          /\ {listing[i] : i \in 1..Len(listing)} = target_run.artifacts
          /\ Len(listing) = Cardinality(target_run.artifacts)
          /\ Len(dlLog) <= Len(listing)
          /\ dlLog = SubSeq(listing, 1, Len(dlLog))
    /\ (dPc \in {"finished", "raised"} /\ target_run # NoRun) => dlLog = listing
    /\ args_run = "given" => sPc = "idle" /\ passLog = <<>>

=============================================================================
